---- MODULE Spec2Model ----
(***************************************************************************)
(* rbnspots.py: the output controller, the retry policy (get_spots) and    *)
(* the polling session (watch), with the one-shot caller (main).           *)
(*                                                                         *)
(* The program is sequential.  Each action is one step of its control      *)
(* flow; the network, the clock and the terminal are its environment.      *)
(***************************************************************************)
EXTENDS Integers, Sequences, FiniteSets, TLC

\* ------------------------------------------------------------------ bounds
\* Spot identifiers are 1..MaxIds; a response carries at most MaxBatchLen spots.
MaxIds == 2
MaxBatchLen == 2
\* A direct call of get_spots passes retries in 0..MaxRetries and
\* retry_time in 0..MaxRetryTime.
MaxRetries == 2
MaxRetryTime == 2
\* Calls made on the output controller by the free driver.
MaxCalls == 4

\* ------------------------------------------------------- program constants
\* def get_spots(*args, retries=5, retry_time=3, **kwargs)
DefaultRetries == 5
DefaultRetryTime == 3

Ids == 1..MaxIds
\* Callsigns a response may mention, in its directory ('ci') or in a spot.
Calls == {"K1AA", "W2BB"}
\* Texts the free driver passes to echo and print_status.
Texts == {"A", "B", "C"}

VARIABLES
    caller,          \* who runs: "watch", "main", "get_spots" (a direct call
                     \* with keyword arguments) or "OutputController" (driver)
    pc,              \* position in the program
    last_is_status,  \* OutputController.last_is_status
    screen,          \* the lines now visible on the terminal, oldest first
    old_spots,       \* watch: the set of identifiers already shown
    retries,         \* get_spots: 'retries' of the current frame
    retry_time,      \* get_spots: 'retry_time' of the current frame
    x,               \* get_spots: the countdown loop's variable
    resp,            \* the Response returned by get_spots
    new_spots,       \* watch: the list of new spots of this cycle
    idx,             \* position of the running for loop in its list
    exc,             \* the exception that ended the program, or "none"
    \* Observation of the run (written, never read by the program):
    trace,           \* events of the current cycle or call, in order
    arg_retries,     \* 'retries' the caller gave to get_spots
    arg_retry_time,  \* 'retry_time' the caller gave to get_spots
    seen_at_start,   \* old_spots when the current cycle started
    prev_ok,         \* the previous cycle's fetch succeeded
    prev_ids,        \* identifiers of the previous cycle's batch, in order
    returned_ids     \* identifiers of all the batches get_spots has returned

vars == <<caller, pc, last_is_status, screen, old_spots, retries, retry_time,
          x, resp, new_spots, idx, exc, trace, arg_retries, arg_retry_time,
          seen_at_start, prev_ok, prev_ids, returned_ids>>

\* ------------------------------------------------------------ data model
RECURSIVE SeqsUpTo(_, _)
SeqsUpTo(S, n) ==
    IF n = 0 THEN {<<>>}
    ELSE LET shorter == SeqsUpTo(S, n - 1)
         IN shorter \cup {Append(s, e) : s \in {t \in shorter : Len(t) = n - 1}, e \in S}

\* The station asked for: _get_spots queries 'cdx': str(callsign), and the
\* feed answers with spots whose transmitter (spot_dx) is that station.
Callsign == "K1AA"

\* class SpotInfo: the fields the session and format_spot's lookups read.
SpotInfo == [id : Ids, spot_de : Calls, spot_dx : {Callsign}]

IdsOf(spots) == [i \in 1..Len(spots) |-> spots[i].id]

SeqRange(s) == {s[i] : i \in 1..Len(s)}

\* parse_response builds 'spots' from the items of a JSON object keyed by
\* spot id, so the identifiers of one batch are pairwise distinct.
Batches ==
    {b \in SeqsUpTo(SpotInfo, MaxBatchLen) :
        \A i, j \in 1..Len(b) : b[i].id = b[j].id => i = j}

\* class Response: the callsign directory (its keys) and the spots.
Response == [callsigns : SUBSET Calls, spots : Batches]

NoResponse == [callsigns |-> {}, spots |-> <<>>]

\* ------------------------------------------------------------ events
Event(chan, msg, n, error) == [chan |-> chan, msg |-> msg, n |-> n, error |-> error]

\* click.echo(text): a line on standard output.
OutLine(msg, n) == Event("out", msg, n, FALSE)
\* click.echo(text, err=True): a line on standard error, red when 'error'.
ErrLine(msg, n, error) == Event("err", msg, n, error)
\* click.echo('\x1b[A\x1b[K', nl=False, err=True)
EraseSeq == Event("err", "erase", 0, FALSE)
\* One call of _get_spots and how it ended: "ok" or the exception raised.
FetchEv(outcome) == Event("net", outcome, 0, FALSE)
\* time.sleep(n)
SleepEv(n) == Event("time", "sleep", n, FALSE)

\* Cursor up one line and clear it: the bottom line of the terminal goes.
EraseLast(scr) == IF Len(scr) = 0 THEN scr ELSE SubSeq(scr, 1, Len(scr) - 1)

\* ------------------------------------------------------ OutputController
IO == [last_is_status |-> last_is_status, screen |-> screen, trace |-> trace]

NeedsErase_always(flag) == TRUE

NeedsErase_never(flag) == FALSE

\* _clear_status: 'if self.last_is_status:'
NeedsErase(flag) == flag

_clear_status(io) ==
    IF NeedsErase(io.last_is_status)
    THEN [last_is_status |-> FALSE,
          screen |-> EraseLast(io.screen),
          trace |-> Append(io.trace, EraseSeq)]
    ELSE [io EXCEPT !.last_is_status = FALSE]

print_status_noflag(io, msg, n, error) ==
    LET c == _clear_status(io)
    IN [last_is_status |-> c.last_is_status,
        screen |-> Append(c.screen, ErrLine(msg, n, error)),
        trace |-> Append(c.trace, ErrLine(msg, n, error))]

print_status(io, msg, n, error) ==
    LET c == _clear_status(io)
    IN [last_is_status |-> TRUE,
        screen |-> Append(c.screen, ErrLine(msg, n, error)),
        trace |-> Append(c.trace, ErrLine(msg, n, error))]

echo(io, msg, n) ==
    LET c == _clear_status(io)
    IN [last_is_status |-> c.last_is_status,
        screen |-> Append(c.screen, OutLine(msg, n)),
        trace |-> Append(c.trace, OutLine(msg, n))]

SetIO(io) ==
    /\ last_is_status' = io.last_is_status
    /\ screen' = io.screen
    /\ trace' = io.trace

\* ------------------------------------------------------------- _get_spots
\* One attempt: a parsed Response, or the exception it raises.
\*   RequestFailed    'if not response.ok: raise RequestFailed(...)'
\*   ConnectionError  requests.get fails in transport
\*   ValueError       response.json() / parse_response cannot decode the body
FetchExceptions == {"RequestFailed", "ConnectionError", "ValueError"}

_get_spots ==
    {[kind |-> "ok", resp |-> r, exc |-> "none"] : r \in Response}
    \cup {[kind |-> "raise", resp |-> NoResponse, exc |-> e] : e \in FetchExceptions}

\* -------------------------------------------------------------- get_spots
CatchesRequestFailed_broad(e) == e \in {"RequestFailed", "ValueError"}

\* get_spots: 'except RequestFailed as e:'
CatchesRequestFailed(e) == e = "RequestFailed"

WatchCatches_nothing(e) == FALSE

\* watch: 'except RequestFailed:'
WatchCatches(e) == e = "RequestFailed"

CanRetry_offbyone(r) == r >= 0

\* 'if retries > 0:'
CanRetry(r) == r > 0

NextRetries_same(r) == r

\* 'retries=(retries - 1)'
NextRetries(r) == r - 1

\* 'return get_spots(*args, retries=(retries - 1), **kwargs)': retry_time is
\* not among the arguments passed on, so the new frame takes the default.
RecurseRetryTime(t) == DefaultRetryTime

\* Where control goes when get_spots returns / raises to its caller.
ReturnTo == CASE caller = "watch" -> "watch_else"
              [] caller = "main" -> "main_for"
              [] OTHER -> "returned"

\* The caller's entry into get_spots with the given keyword arguments.
EnterGetSpots(r, t) ==
    /\ retries' = r
    /\ retry_time' = t
    /\ arg_retries' = r
    /\ arg_retry_time' = t
    /\ pc' = "get_spots"

get_spots_attempt ==
    /\ pc = "get_spots"
    /\ \E o \in _get_spots :
        /\ trace' = Append(trace, FetchEv(IF o.kind = "ok" THEN "ok" ELSE o.exc))
        /\ \/ /\ o.kind = "ok"
              /\ resp' = o.resp
              /\ returned_ids' = returned_ids \cup SeqRange(IdsOf(o.resp.spots))
              /\ pc' = ReturnTo
              /\ x' = x
              /\ exc' = exc
           \/ /\ o.kind = "raise"
              /\ resp' = resp
              /\ returned_ids' = returned_ids
              /\ IF CatchesRequestFailed(o.exc) /\ CanRetry(retries)
                 THEN pc' = "countdown" /\ x' = 0 /\ exc' = exc
                 ELSE \* 'raise', or not caught: out of every frame of
                      \* get_spots, to the caller
                      IF caller = "watch" /\ WatchCatches(o.exc)
                      THEN pc' = "watch_except" /\ x' = x /\ exc' = exc
                      ELSE pc' = "raised" /\ x' = x /\ exc' = o.exc
    /\ UNCHANGED <<caller, last_is_status, screen, old_spots, retries, retry_time,
                   new_spots, idx, arg_retries, arg_retry_time, seen_at_start,
                   prev_ok, prev_ids>>

\* One turn of 'for x in range(retry_time)': the status line, then sleep(1).
get_spots_countdown ==
    /\ pc = "countdown"
    /\ x < retry_time
    /\ LET io == print_status(IO, "retry", retry_time - x, TRUE)
       IN /\ last_is_status' = io.last_is_status
          /\ screen' = io.screen
          /\ trace' = Append(io.trace, SleepEv(1))
    /\ x' = x + 1
    /\ UNCHANGED <<returned_ids, caller, pc, old_spots, retries, retry_time, resp, new_spots,
                   idx, exc, arg_retries, arg_retry_time, seen_at_start,
                   prev_ok, prev_ids>>

\* The loop is over: 'return get_spots(*args, retries=(retries - 1), **kwargs)'
get_spots_recurse ==
    /\ pc = "countdown"
    /\ x >= retry_time
    /\ retries' = NextRetries(retries)
    /\ retry_time' = RecurseRetryTime(retry_time)
    /\ pc' = "get_spots"
    /\ UNCHANGED <<returned_ids, caller, last_is_status, screen, old_spots, x, resp, new_spots,
                   idx, exc, trace, arg_retries, arg_retry_time, seen_at_start,
                   prev_ok, prev_ids>>

\* A direct call get_spots(callsign, retries=R, retry_time=T).
call_get_spots ==
    /\ caller = "get_spots"
    /\ pc = "start"
    /\ \E r \in 0..MaxRetries, t \in 0..MaxRetryTime : EnterGetSpots(r, t)
    /\ UNCHANGED <<returned_ids, caller, last_is_status, screen, old_spots, x, resp, new_spots,
                   idx, exc, trace, seen_at_start, prev_ok, prev_ids>>

\* ------------------------------------------------------------------ watch
AddSeen_forget(S, id) == S

AddSeen_replace(S, id) == {id}

\* 'old_spots.add(spot.id)'
AddSeen(S, id) == S \cup {id}

NewSpots_all(spots, old) == spots

NewSpots_reversed(spots, old) ==
    LET new == SelectSeq(spots, LAMBDA spot : spot.id \notin old)
    IN [i \in 1..Len(new) |-> new[Len(new) + 1 - i]]

\* 'list(spot for spot in resp.spots if spot.id not in old_spots)'
NewSpots(spots, old) == SelectSeq(spots, LAMBDA spot : spot.id \notin old)

\* format_spot: 'callsigns[spot.spot_dx]' and 'callsigns[spot.spot_de]' raise
\* KeyError when the callsign is not a key of the directory.
FormatRaises(spot, callsigns) ==
    spot.spot_dx \notin callsigns \/ spot.spot_de \notin callsigns

HasNew_always(new) == TRUE

\* 'if len(new_spots) > 0:'
HasNew(new) == Len(new) > 0

CycleRetries_leftover == retries

\* 'resp = get_spots(callsign)' inside the loop: no 'retries' argument, so
\* every cycle's call takes the default.
CycleRetries == DefaultRetries

\* Top of 'while True:': 'resp = get_spots(callsign)', default arguments.
watch_get_spots ==
    /\ caller = "watch"
    /\ pc = "start"
    /\ EnterGetSpots(CycleRetries, DefaultRetryTime)
    /\ trace' = <<>>
    /\ seen_at_start' = old_spots
    /\ UNCHANGED <<returned_ids, caller, last_is_status, screen, old_spots, x, resp, new_spots,
                   idx, exc, prev_ok, prev_ids>>

\* 'except RequestFailed: out.print_status('All requests failed', error=True)'
watch_except ==
    /\ pc = "watch_except"
    /\ SetIO(print_status(IO, "all_failed", 0, TRUE))
    /\ pc' = "watch_sleep"
    /\ UNCHANGED <<returned_ids, caller, old_spots, retries, retry_time, x, resp, new_spots,
                   idx, exc, arg_retries, arg_retry_time, seen_at_start,
                   prev_ok, prev_ids>>

\* 'else:' up to the header: new_spots, then 'Received N new spots at ...'
\* through out.echo when there is a new spot.
watch_else ==
    /\ pc = "watch_else"
    /\ LET new == NewSpots(resp.spots, old_spots)
       IN /\ new_spots' = new
          /\ idx' = 1
          /\ IF HasNew(new)
             THEN /\ SetIO(echo(IO, "received", Len(new)))
                  /\ pc' = IF Len(new) > 0 THEN "watch_for" ELSE "watch_latest"
             ELSE UNCHANGED <<last_is_status, screen, trace>> /\ pc' = "watch_latest"
    /\ UNCHANGED <<returned_ids, caller, old_spots, retries, retry_time, x, resp, exc,
                   arg_retries, arg_retry_time, seen_at_start, prev_ok, prev_ids>>

\* 'out.echo(format_spot(spot, resp.callsigns))' for the spot at idx.
watch_for_echo ==
    /\ pc = "watch_for"
    /\ LET spot == new_spots[idx]
       IN IF FormatRaises(spot, resp.callsigns)
          THEN /\ pc' = "raised"
               /\ exc' = "KeyError"
               /\ UNCHANGED <<last_is_status, screen, trace>>
          ELSE /\ SetIO(echo(IO, "spot", spot.id))
               /\ pc' = "watch_add"
               /\ exc' = exc
    /\ UNCHANGED <<returned_ids, caller, old_spots, retries, retry_time, x, resp, new_spots,
                   idx, arg_retries, arg_retry_time, seen_at_start, prev_ok, prev_ids>>

\* 'old_spots.add(spot.id)', then the next spot or the end of the loop.
watch_for_add ==
    /\ pc = "watch_add"
    /\ old_spots' = AddSeen(old_spots, new_spots[idx].id)
    /\ idx' = idx + 1
    /\ pc' = IF idx + 1 > Len(new_spots) THEN "watch_latest" ELSE "watch_for"
    /\ UNCHANGED <<returned_ids, caller, last_is_status, screen, retries, retry_time, x, resp,
                   new_spots, exc, trace, arg_retries, arg_retry_time,
                   seen_at_start, prev_ok, prev_ids>>

\* 'out.print_status('Latest update: {}'.format(timestamp))'
watch_latest ==
    /\ pc = "watch_latest"
    /\ SetIO(print_status(IO, "latest", 0, FALSE))
    /\ pc' = "watch_sleep"
    /\ UNCHANGED <<returned_ids, caller, old_spots, retries, retry_time, x, resp, new_spots,
                   idx, exc, arg_retries, arg_retry_time, seen_at_start,
                   prev_ok, prev_ids>>

\* The cycle's fetch returned a Response (the 'else:' branch ran).
FetchSucceeded == trace # <<>> /\ trace[Len(trace)].msg = "latest"

\* 'time.sleep(watch_time)', and back to the top of the loop.
watch_sleep ==
    /\ pc = "watch_sleep"
    /\ pc' = "start"
    /\ trace' = Append(trace, SleepEv(0))
    /\ prev_ok' = FetchSucceeded
    /\ prev_ids' = IF FetchSucceeded THEN IdsOf(resp.spots) ELSE <<>>
    \* resp and new_spots are not read again before the next cycle rebinds them.
    /\ resp' = NoResponse
    /\ new_spots' = <<>>
    /\ idx' = 1
    /\ UNCHANGED <<returned_ids, caller, last_is_status, screen, old_spots, retries, retry_time,
                   x, exc, arg_retries, arg_retry_time, seen_at_start>>

\* The texts watch formats with the timestamp: 'Received {} new spots at {}'
\* and 'Latest update: {}'.  'All requests failed' and 'Request failed with
\* code {}. Retry in {} seconds...' carry none.
HasTimestamp(e) == e.msg \in {"received", "latest"}

\* ------------------------------------------------------------------- main
\* 'resp = get_spots(callsign)' without --watch.
main_get_spots ==
    /\ caller = "main"
    /\ pc = "start"
    /\ EnterGetSpots(DefaultRetries, DefaultRetryTime)
    /\ idx' = 1
    /\ UNCHANGED <<returned_ids, caller, last_is_status, screen, old_spots, x, resp, new_spots,
                   exc, trace, seen_at_start, prev_ok, prev_ids>>

\* 'for spot in resp.spots: out.echo(format_spot(spot, resp.callsigns))'
main_for ==
    /\ pc = "main_for"
    /\ IF idx > Len(resp.spots)
       THEN /\ pc' = "done"
            /\ UNCHANGED <<last_is_status, screen, trace, idx, exc>>
       ELSE IF FormatRaises(resp.spots[idx], resp.callsigns)
            THEN /\ pc' = "raised"
                 /\ exc' = "KeyError"
                 /\ UNCHANGED <<last_is_status, screen, trace, idx>>
            ELSE /\ SetIO(echo(IO, "spot", resp.spots[idx].id))
                 /\ idx' = idx + 1
                 /\ UNCHANGED <<pc, exc>>
    /\ UNCHANGED <<returned_ids, caller, old_spots, retries, retry_time, x, resp, new_spots,
                   arg_retries, arg_retry_time, seen_at_start, prev_ok, prev_ids>>

\* ------------------------------------------- OutputController, free driver
\* Calls made so far by the driver (an erase is part of the call it is in).
CallsMade == Len(SelectSeq(trace, LAMBDA e : e.msg # "erase"))

call_echo ==
    /\ caller = "OutputController"
    /\ CallsMade < MaxCalls
    /\ \E text \in Texts : SetIO(echo(IO, text, 0))
    /\ UNCHANGED <<returned_ids, caller, pc, old_spots, retries, retry_time, x, resp, new_spots,
                   idx, exc, arg_retries, arg_retry_time, seen_at_start,
                   prev_ok, prev_ids>>

call_print_status ==
    /\ caller = "OutputController"
    /\ CallsMade < MaxCalls
    /\ \E text \in Texts, error \in BOOLEAN : SetIO(print_status(IO, text, 0, error))
    /\ UNCHANGED <<returned_ids, caller, pc, old_spots, retries, retry_time, x, resp, new_spots,
                   idx, exc, arg_retries, arg_retry_time, seen_at_start,
                   prev_ok, prev_ids>>

Init ==
    /\ caller \in {"watch", "main", "get_spots", "OutputController"}
    /\ pc = "start"
    /\ last_is_status = FALSE
    /\ screen = <<>>
    /\ old_spots = {}
    /\ retries = DefaultRetries
    /\ retry_time = DefaultRetryTime
    /\ x = 0
    /\ resp = NoResponse
    /\ new_spots = <<>>
    /\ idx = 1
    /\ exc = "none"
    /\ trace = <<>>
    /\ arg_retries = DefaultRetries
    /\ arg_retry_time = DefaultRetryTime
    /\ seen_at_start = {}
    /\ prev_ok = FALSE
    /\ prev_ids = <<>>
    /\ returned_ids = {}

Next ==
    \/ call_get_spots
    \/ get_spots_attempt
    \/ get_spots_countdown
    \/ get_spots_recurse
    \/ watch_get_spots
    \/ watch_except
    \/ watch_else
    \/ watch_for_echo
    \/ watch_for_add
    \/ watch_latest
    \/ watch_sleep
    \/ main_get_spots
    \/ main_for
    \/ call_echo
    \/ call_print_status

Spec == Init /\ [][Next]_vars

\* The retry policy alone: one direct call of get_spots, for every 'retries'
\* and 'retry_time' within the bounds and every outcome of every attempt.
\* Fairness: the program is one thread that runs on; every call of
\* requests.get and of time.sleep comes back.
InitPolicy == Init /\ caller = "get_spots"

NextPolicy ==
    \/ call_get_spots
    \/ get_spots_attempt
    \/ get_spots_countdown
    \/ get_spots_recurse

SpecPolicy == InitPolicy /\ [][NextPolicy]_vars /\ WF_vars(NextPolicy)

\* ---------------------------------------------------------- observations
Count(tr, P(_)) == Len(SelectSeq(tr, P))

IsFetch(e) == e.chan = "net"
IsSpotLine(e) == e.chan = "out" /\ e.msg = "spot"
IsRetryStatus(e) == e.chan = "err" /\ e.msg = "retry"

\* Identifiers of the record lines written in the current cycle, in order.
SpotLines ==
    LET lines == SelectSeq(trace, IsSpotLine)
    IN [i \in 1..Len(lines) |-> lines[i].n]

\* Identifiers of the batch not in 'seen', in batch order (stated apart from
\* NewSpots, which is what the program computes).
UnseenIds(spots, seen) ==
    LET ids == IdsOf(spots)
    IN SelectSeq(ids, LAMBDA id : id \notin seen)

IsPrefix(s, t) == Len(s) <= Len(t) /\ \A i \in 1..Len(s) : s[i] = t[i]

\* Position of identifier id in the batch (identifiers are distinct).
PosIn(ids, id) == CHOOSE i \in 1..Len(ids) : ids[i] = id

\* In watch, the fetch of the current cycle has returned a Response.
InCycleAfterFetch ==
    /\ caller = "watch"
    /\ \/ pc \in {"watch_else", "watch_for", "watch_add", "watch_latest", "watch_sleep"}
       \/ pc = "raised" /\ exc = "KeyError"

\* The cycle ran to its end: 'Latest update' is written, the sleep is next.
CycleCompleted == caller = "watch" /\ pc = "watch_sleep" /\ FetchSucceeded

\* ------------------------------------------------------------------ claims

\* C1: Deduplication idempotence.  When the previous cycle fetched a batch
\* successfully and the current cycle fetches a batch with the same
\* identifiers in the same order, the current cycle writes no record line.
C1_DedupIdempotence ==
    (InCycleAfterFetch /\ prev_ok /\ IdsOf(resp.spots) = prev_ids)
        => SpotLines = <<>>

C1_Witness ==
    /\ CycleCompleted
    /\ prev_ok
    /\ IdsOf(resp.spots) = prev_ids
    /\ Len(prev_ids) >= 2

\* C2 as stated: in every cycle whose fetch succeeds, once the cycle is over
\* the record lines are exactly those of the batch's records whose identifier
\* was not in the Seen-Set when the cycle started.
C2_Original ==
    (InCycleAfterFetch /\ pc \in {"watch_sleep", "raised"})
        => SpotLines = UnseenIds(resp.spots, seen_at_start)

\* C2 amended: in every cycle whose fetch succeeds, the record lines written
\* are at every moment a prefix of the unseen records of the batch (so no seen
\* record gets a line); they are all of them once the cycle completes; and
\* when format_spot raises KeyError they are exactly the unseen records that
\* precede the first one with a callsign missing from the directory.
C2_PartialNovelty ==
    InCycleAfterFetch =>
        LET unseen == UnseenIds(resp.spots, seen_at_start)
            spots == SelectSeq(resp.spots, LAMBDA s : s.id \notin seen_at_start)
        IN /\ IsPrefix(SpotLines, unseen)
           /\ pc \in {"watch_latest", "watch_sleep"} => SpotLines = unseen
           /\ pc = "raised" =>
                /\ Len(SpotLines) < Len(unseen)
                /\ FormatRaises(spots[Len(SpotLines) + 1], resp.callsigns)
                /\ \A i \in 1..Len(SpotLines) : ~FormatRaises(spots[i], resp.callsigns)

C2_Witness ==
    /\ CycleCompleted
    /\ seen_at_start # {}
    /\ Len(SpotLines) >= 1
    /\ Len(SpotLines) < Len(resp.spots)

\* C3: Order preservation.  In every cycle whose fetch succeeds, the record
\* lines are lines of records of the batch, each written once, in the same
\* relative order as the records have in the batch.
C3_OrderPreservation ==
    InCycleAfterFetch =>
        LET ids == IdsOf(resp.spots)
        IN /\ \A i \in 1..Len(SpotLines) : SpotLines[i] \in SeqRange(ids)
           /\ \A i, j \in 1..Len(SpotLines) :
                i < j => PosIn(ids, SpotLines[i]) < PosIn(ids, SpotLines[j])

C3_Witness ==
    /\ CycleCompleted
    /\ Len(SpotLines) >= 2

\* RequestFailed came out of get_spots to its caller.
RequestFailedSurfaced ==
    \/ pc = "raised" /\ exc = "RequestFailed"
    \/ pc = "watch_except"

\* C4: Retry exhaustion count.  With a retry budget R (the caller's
\* 'retries'), the failure of a fetch that fails with RequestFailed every
\* time comes out of get_spots after exactly R + 1 calls of _get_spots, and
\* get_spots never makes more than R + 1 calls.
C4_RetryExhaustion ==
    /\ pc \in {"get_spots", "countdown"} => Count(trace, IsFetch) <= arg_retries
    /\ RequestFailedSurfaced => Count(trace, IsFetch) = arg_retries + 1

C4_Witness ==
    /\ caller = "get_spots"
    /\ pc = "raised"
    /\ exc = "RequestFailed"
    /\ arg_retries >= 2
    /\ Count(trace, IsFetch) = arg_retries + 1

\* -------------------------------------------------------------- countdowns
\* Positions of the calls of _get_spots in the trace.
FetchPositions == {i \in 1..Len(trace) : IsFetch(trace[i])}

\* i < j are two calls of _get_spots with no call between them.
Consecutive(i, j) ==
    /\ i \in FetchPositions
    /\ j \in FetchPositions
    /\ i < j
    /\ \A k \in FetchPositions : ~(i < k /\ k < j)

\* Status updates of the countdown between trace positions i and j.
RetryStatusesBetween(i, j) ==
    Cardinality({k \in (i + 1)..(j - 1) : IsRetryStatus(trace[k])})

\* C5 as stated: every countdown that get_spots runs before a retry, the first
\* and each later one, writes exactly T status updates, T being the caller's
\* 'retry_time', and each status update is followed by a sleep of one second.
C5_CountdownLength ==
    \A i, j \in FetchPositions :
        Consecutive(i, j) =>
            /\ RetryStatusesBetween(i, j) = arg_retry_time
            /\ \A k \in (i + 1)..(j - 1) :
                 IsRetryStatus(trace[k]) => trace[k + 1] = SleepEv(1)

IsDecodeFailure(e) == e.chan = "net" /\ e.msg = "ValueError"

\* C6: Non-retry on decode failure.  An attempt that fails to decode the
\* payload (ValueError) is the last thing get_spots does: no status update,
\* no sleep and no further attempt follows it, and the program ends on the
\* ValueError, which is not RequestFailed.  When it is the first attempt,
\* _get_spots has been called exactly once and nothing else has happened.
C6_NoRetryOnDecodeFailure ==
    \A i \in 1..Len(trace) :
        IsDecodeFailure(trace[i]) =>
            /\ i = Len(trace)
            /\ pc = "raised"
            /\ exc = "ValueError"
            /\ exc # "RequestFailed"
            /\ retries = arg_retries => trace = <<FetchEv("ValueError")>>

C6_Witness ==
    /\ pc = "raised"
    /\ exc = "ValueError"
    /\ retries = arg_retries
    /\ arg_retries > 0
    /\ trace = <<FetchEv("ValueError")>>

\* C7 as stated: in watch, a fetch that fails transiently, with a non-success
\* status (RequestFailed) or with a transport error (ConnectionError), never
\* ends the loop.
C7_CycleFailuresNonFatal ==
    ~(caller = "watch" /\ pc = "raised" /\ exc \in {"RequestFailed", "ConnectionError"})

\* C8 as stated: a transport failure of an attempt made while retries remain
\* does not come out of get_spots; the countdown and another attempt follow.
C8_TransportFailureRetried ==
    ~(pc = "raised" /\ exc = "ConnectionError" /\ retries > 0)

IsAllFailed(e) == e.chan = "err" /\ e.msg = "all_failed"
IsNormalLine(e) == e.chan = "out"

\* Every attempt the retry budget allows has failed with RequestFailed.
RetriesExhausted ==
    Count(trace, LAMBDA e : e.chan = "net" /\ e.msg = "RequestFailed") = arg_retries + 1

\* C9: Exhausted retries in a polling cycle.  The cycle does not raise: it
\* goes on to the except handler and the sleep; it writes 'All requests
\* failed' exactly once, as a status line; it writes no line to normal
\* output; and old_spots is what it was when the cycle started.
C9_ExhaustedRetriesCycle ==
    (caller = "watch" /\ RetriesExhausted) =>
        /\ pc \in {"watch_except", "watch_sleep", "start"}
        /\ exc = "none"
        /\ Count(trace, IsAllFailed) = (IF pc = "watch_except" THEN 0 ELSE 1)
        /\ Count(trace, LAMBDA e : e.msg = "all_failed" /\ e.chan # "err") = 0
        /\ Count(trace, IsNormalLine) = 0
        /\ old_spots = seen_at_start

C9_Witness ==
    /\ caller = "watch"
    /\ RetriesExhausted
    /\ pc = "watch_sleep"
    /\ old_spots # {}
    /\ Count(trace, IsAllFailed) = 1

\* ---------------------------------------------------------------- screen
\* The lines of normal output (written by echo) on the terminal, in order.
NormalLines(scr) == SelectSeq(scr, IsNormalLine)

\* This step emits the erase sequence.
ErasesInStep ==
    /\ Len(trace') > Len(trace)
    /\ \E i \in (Len(trace) + 1)..Len(trace') : trace'[i] = EraseSeq

\* C10: Normal output lines are never erased.  In every step, the erase
\* sequence is emitted only when the last line written is a status line, and
\* the normal lines on the terminal before the step are still there after it.
C10_NormalLinesNeverErased ==
    [][/\ ErasesInStep => (screen # <<>> /\ screen[Len(screen)].chan = "err")
       /\ IsPrefix(NormalLines(screen), NormalLines(screen'))]_vars

C10_Witness ==
    /\ caller = "OutputController"
    /\ Len(NormalLines(screen)) >= 2
    /\ Len(screen) = Len(NormalLines(screen))
    /\ Count(trace, LAMBDA e : e = EraseSeq) >= 2

IsStatusLine(e) == e.chan = "err"

\* C11: At most one status line is visible.  After every call of echo or
\* print_status, at most one status line is on the terminal; when there is
\* one it is the bottom line, the most recent write, and last_is_status says
\* so (e.g. print_status(A), echo(B), print_status(C) leaves B and then C).
C11_OneStatusLine ==
    /\ Count(screen, IsStatusLine) <= 1
    /\ \A i \in 1..Len(screen) : IsStatusLine(screen[i]) => i = Len(screen)
    /\ last_is_status <=> (screen # <<>> /\ IsStatusLine(screen[Len(screen)]))

C11_Witness ==
    /\ caller = "OutputController"
    /\ trace = <<ErrLine("A", 0, FALSE), EraseSeq, OutLine("B", 0), ErrLine("C", 0, FALSE)>>
    /\ screen = <<OutLine("B", 0), ErrLine("C", 0, FALSE)>>

\* Identifiers of the record lines now on the terminal, oldest first.
ScreenSpotIds ==
    LET lines == SelectSeq(screen, IsSpotLine)
    IN [i \in 1..Len(lines) |-> lines[i].n]

IsWrite(e) == e.chan \in {"out", "err"} /\ e # EraseSeq

\* The last line written in the current cycle (there is one).
LastWrite ==
    LET w == SelectSeq(trace, IsWrite)
    IN w[Len(w)]

HasWritten == Count(trace, IsWrite) > 0

\* The last call of _get_spots in the current cycle returned a Response.
LastFetchOk ==
    LET f == SelectSeq(trace, IsFetch)
    IN Len(f) > 0 /\ f[Len(f)].msg = "ok"

\* C13 as stated: every cycle of watch whose fetch succeeded or failed after
\* exhausted retries ends with the write of a status line that carries the
\* time of the update or of the failure, and that line is the visible bottom
\* line.
C13_Original ==
    (caller = "watch" /\ (LastFetchOk \/ RetriesExhausted)
                      /\ pc \in {"watch_sleep", "raised"}) =>
        /\ HasWritten
        /\ IsStatusLine(LastWrite)
        /\ HasTimestamp(LastWrite)
        /\ last_is_status
        /\ screen # <<>>
        /\ screen[Len(screen)] = LastWrite

\* C13 amended: whenever the session sleeps between two cycles, the last
\* write of the cycle was a status line and it is still the visible bottom
\* line: 'Latest update: <timestamp>' after a fetch that succeeded, and the
\* red 'All requests failed', which carries no timestamp, after exhausted
\* retries.  (A cycle that format_spot ends with KeyError writes no such line;
\* the session ends there and never sleeps.)
C13_StatusAfterCycle ==
    (caller = "watch" /\ (pc = "watch_sleep" \/ (pc = "start" /\ trace # <<>>))) =>
        /\ HasWritten
        /\ last_is_status
        /\ screen # <<>>
        /\ screen[Len(screen)] = LastWrite
        /\ LastFetchOk \/ RetriesExhausted
        /\ LastFetchOk => LastWrite = ErrLine("latest", 0, FALSE)
        /\ RetriesExhausted =>
             (LastWrite = ErrLine("all_failed", 0, TRUE) /\ ~HasTimestamp(LastWrite))

C13_Witness ==
    /\ caller = "watch"
    /\ pc = "watch_sleep"
    /\ RetriesExhausted
    /\ prev_ok
    /\ screen[Len(screen)] = ErrLine("all_failed", 0, TRUE)

\* C14: One-shot propagation.  In main without --watch, when every attempt the
\* budget allows has failed with RequestFailed, the exception leaves get_spots
\* and main (the program ends on it): no 'All requests failed' status line is
\* written in its place and no line reaches normal output.
C14_OneShotPropagation ==
    (caller = "main" /\ RetriesExhausted) =>
        /\ pc = "raised"
        /\ exc = "RequestFailed"
        /\ Count(trace, IsAllFailed) = 0
        /\ Count(trace, IsNormalLine) = 0
        /\ NormalLines(screen) = <<>>

C14_Witness ==
    /\ caller = "main"
    /\ pc = "raised"
    /\ exc = "RequestFailed"
    /\ Count(trace, IsFetch) = DefaultRetries + 1
    /\ Count(trace, IsRetryStatus) > 0

\* C15: Seen-Set monotonicity.  old_spots is empty when the session starts,
\* and no step of the session (attempt, countdown, retry, echo, add, status
\* line, sleep) removes an identifier from it.
C15_SeenSetMonotonic ==
    /\ old_spots = {}
    /\ [][old_spots \subseteq old_spots']_vars

C15_Witness ==
    /\ caller = "watch"
    /\ pc = "watch_sleep"
    /\ RetriesExhausted
    /\ prev_ok
    /\ Cardinality(old_spots) >= 2

IsHeader(e) == e.msg = "received"

\* Positions in the trace of the headers and of the record lines.
HeaderPositions == {i \in 1..Len(trace) : IsHeader(trace[i])}
SpotLinePositions == {i \in 1..Len(trace) : IsSpotLine(trace[i])}

\* Number of records of the batch that were unseen when the cycle started.
NewCount == Len(UnseenIds(resp.spots, seen_at_start))

\* The cycle is past the point where the header is written.
PastHeader == InCycleAfterFetch /\ pc # "watch_else"

\* C16 as stated: in a cycle whose fetch succeeds with N > 0 new records,
\* exactly one 'received N new records' line is written, as a status update,
\* before the first record line, and N is the number of record lines the
\* cycle has written when it is over; with no new record there is no header.
C16_Original ==
    PastHeader =>
        IF NewCount > 0
        THEN /\ Cardinality(HeaderPositions) = 1
             /\ \A h \in HeaderPositions :
                  /\ trace[h].chan = "err"
                  /\ trace[h].n = NewCount
                  /\ \A k \in SpotLinePositions : h < k
             /\ pc \in {"watch_sleep", "raised"} => Len(SpotLines) = NewCount
        ELSE HeaderPositions = {}

\* C16 amended: in a cycle whose fetch succeeds with N > 0 new records,
\* exactly one 'Received N new spots at <timestamp>' line is written, through
\* echo to normal output (a permanent line, not a status update), before the
\* first record line; the cycle writes at most N record lines, and exactly N
\* when it completes.  With no new record no header is written.
C16_NewRecordsHeader ==
    PastHeader =>
        IF NewCount > 0
        THEN /\ Cardinality(HeaderPositions) = 1
             /\ \A h \in HeaderPositions :
                  /\ trace[h] = OutLine("received", NewCount)
                  /\ HasTimestamp(trace[h])
                  /\ \A k \in SpotLinePositions : h < k
                  /\ \E i \in 1..Len(screen) : screen[i] = trace[h]
             /\ Len(SpotLines) <= NewCount
             /\ pc \in {"watch_latest", "watch_sleep"} => Len(SpotLines) = NewCount
        ELSE HeaderPositions = {}

C16_Witness ==
    /\ CycleCompleted
    /\ NewCount = 2
    /\ Len(SpotLines) = 2
    /\ Cardinality(HeaderPositions) = 1

\* get_spots is running (between the call and its return or raise).
InGetSpots == pc \in {"get_spots", "countdown"}

\* Nothing of the retry policy happens after trace position i: no call of
\* _get_spots, no countdown status update, no sleep.
PolicyQuietAfter(i) ==
    \A j \in (i + 1)..Len(trace) :
        ~IsFetch(trace[j]) /\ ~IsRetryStatus(trace[j]) /\ trace[j] # SleepEv(1)

\* C17: Retry policy termination and early return.  A call of get_spots
\* makes at most R + 1 attempts (R the caller's 'retries') and always comes to
\* its end, a return or a raise; the attempt that succeeds is the last thing
\* the policy does (no further attempt, status update or sleep), the batch is
\* returned at once, and a success of the first attempt is preceded by
\* nothing at all.
C17_TerminationEarlyReturn ==
    /\ [](/\ Count(trace, IsFetch) <= arg_retries + 1
          /\ \A i \in 1..Len(trace) :
               trace[i] = FetchEv("ok") =>
                   /\ ~InGetSpots
                   /\ pc = "returned"
                   /\ PolicyQuietAfter(i)
                   /\ i = Len(trace)
          /\ (trace # <<>> /\ trace[1] = FetchEv("ok")) => Len(trace) = 1)
    /\ (pc = "get_spots") ~> ~InGetSpots

C17_Witness ==
    /\ pc = "returned"
    /\ trace[Len(trace)] = FetchEv("ok")
    /\ Count(trace, IsFetch) = arg_retries + 1
    /\ arg_retries >= 2
    /\ arg_retry_time = 0

\* C18: in watch, every identifier in old_spots is the identifier of a record
\* line already on normal output (the line is written before the identifier
\* is added); and when format_spot raises KeyError part-way through a batch,
\* old_spots is exactly the identifiers of the records displayed so far: those
\* seen before the cycle and those whose line this cycle wrote, none of the
\* remaining ones.
C18_SeenOnlyAfterShown ==
    caller = "watch" =>
        /\ old_spots \subseteq SeqRange(ScreenSpotIds)
        /\ pc = "watch_add" =>
             (new_spots[idx].id \in SeqRange(ScreenSpotIds) /\ new_spots[idx].id \notin old_spots)
        /\ (pc = "raised" /\ exc = "KeyError") =>
             /\ old_spots = SeqRange(ScreenSpotIds)
             /\ old_spots = seen_at_start \cup SeqRange(SpotLines)
             /\ \A i \in idx..Len(new_spots) : new_spots[i].id \notin old_spots

C18_Witness ==
    /\ caller = "watch"
    /\ pc = "raised"
    /\ exc = "KeyError"
    /\ Len(SpotLines) >= 1
    /\ idx > 1
    /\ old_spots = SeqRange(SpotLines)

\* C19: the retry budget is per cycle.  In watch, each cycle's first attempt
\* is made with retries = 5 whatever earlier cycles used up, the budget left
\* within a cycle is 5 less the attempts already made, and no cycle makes more
\* than 6 attempts.
C19_BudgetPerCycle ==
    caller = "watch" =>
        /\ Count(trace, IsFetch) <= DefaultRetries + 1
        /\ arg_retries = DefaultRetries
        /\ pc = "get_spots" => retries = DefaultRetries - Count(trace, IsFetch)
        /\ (pc = "get_spots" /\ trace = <<>>) => retries = DefaultRetries

\* The first attempt of a cycle that follows a cycle of exhausted retries.
C19_Witness ==
    /\ caller = "watch"
    /\ pc = "get_spots"
    /\ trace = <<>>
    /\ retries = DefaultRetries
    /\ screen # <<>>
    /\ screen[Len(screen)] = ErrLine("all_failed", 0, TRUE)
====
